---- MODULE Spec2Model ----
(***************************************************************************)
(* Model of transcriber/main.py: main, transcribe_with_models,             *)
(* split_audio and generate_output_filename, run as a sequence of          *)
(* invocations of the command-line entry point against one file system.    *)
(*                                                                         *)
(* An audio file is modelled by its length in milliseconds (len(audio));   *)
(* the transcription of chunk i is the text ToString(i); the output file   *)
(* is the sequence of blocks written to it.  The accumulator               *)
(* full_transcription (line 127) is never read and is left out.            *)
(* max_duration ranges over the positive integers, and the timestamp of    *)
(* an auto-generated output name is the ordinal of the invocation, so two  *)
(* invocations share an output file only through an explicit --output.     *)
(***************************************************************************)
EXTENDS Integers, Sequences, FiniteSets, TLC

\* ---------------------------------------------------------------- bounds
MaxSeconds == 2
MaxDuration == 2
MaxRuns == 2
MaxExternal == 1

\* ------------------------------------------------------- program constants
MsPerSec == 1000

TempDir == "temp_audio_segments"
DefaultOutputDir == "transcripts"
CustomOutputDir == "custom"
Cwd == "."

\* ------------------------------------------------------------------ paths
OrigPath == [dir |-> Cwd, idx |-> 0]
SegmentPath(i) == [dir |-> TempDir, idx |-> i]

NoOutput == [dir |-> "", ts |-> 0]
GivenOutput == [dir |-> Cwd, ts |-> 0]
TimestampPath(d, now) == [dir |-> d, ts |-> now]

Undecodable == 0 - 1
NotLoaded == 0 - 2

Durations == {q * MsPerSec + r : q \in 0..MaxSeconds, r \in {0, 1, MsPerSec - 1}}
AudioArgs == {OrigPath, SegmentPath(0)}
OutputArgs == {NoOutput, GivenOutput}
OutputDirArgs == {DefaultOutputDir, CustomOutputDir}
Args == [audio_file : AudioArgs, output : OutputArgs,
         output_dir : OutputDirArgs, max_duration : 1..MaxDuration]

\* ---------------------------------------------------------- pure functions
Min(a, b) == IF a <= b THEN a ELSE b

NumSegmentsFloor(len, max_duration) ==
    len \div (max_duration * MsPerSec) + 1

\* math.ceil((len(audio) / 1000) / max_duration)
NumSegments(len, max_duration) ==
    (len + max_duration * MsPerSec - 1) \div (max_duration * MsPerSec)

StartMs(k, max_duration) == k * max_duration * MsPerSec

EndMsUnclamped(k, max_duration, len) == (k + 1) * max_duration * MsPerSec

EndMs(k, max_duration, len) == Min((k + 1) * max_duration * MsPerSec, len)

HeaderBlock == << "# title", "# source", "# date", "# model", "banner" >>

Separator == "--- separator ---"

Text(k) == ToString(k)

AppendedBlocksAccumulated(k) ==
    (IF k > 0 THEN << Separator >> ELSE << >>) \o [j \in 1..(k + 1) |-> Text(j - 1)]

AppendedBlocksAlwaysSeparated(k) == << Separator, Text(k) >>

\* what the append of lines 130-134 adds to the output file for chunk k
AppendedBlocks(k) == (IF k > 0 THEN << Separator >> ELSE << >>) \o << Text(k) >>

OpenAppend(outs, path) ==
    IF path \in DOMAIN outs THEN outs ELSE (path :> << >>) @@ outs

\* open(output_file, 'w'), line 103: creates the file or truncates it
OpenWrite(outs, path) == (path :> << >>) @@ outs

\* line 137
NeedsCleanup(paths) == Len(paths) > 1

ShouldRemoveAlways(path, audio_file_path) == TRUE

\* line 140
ShouldRemove(path, audio_file_path) == path # audio_file_path

Event(op, n) == [op |-> op, n |-> n]

\* ------------------------------------------------------------------ state
VARIABLES
    files,          \* audio files on disk: path -> length in ms (or Undecodable)
    dirs,           \* directories on disk
    outputs,        \* output files on disk: path -> sequence of blocks
    key,            \* OPENAI_API_KEY is set
    run,            \* ordinal of the current invocation (also its timestamp)
    args,           \* parsed command line
    pc,             \* position of the current invocation
    output_file,
    audio,          \* len(audio) of the decoded input
    num_segments,
    segment_paths,
    windows,        \* the slices audio[start_ms:end_ms] exported so far
    i,              \* loop variable of lines 52, 115 and 139
    ret,            \* return value of the invocation
    log,            \* file and network operations of the current invocation
    external        \* number of files removed by somebody else

vars == << files, dirs, outputs, key, run, args, pc, output_file, audio,
           num_segments, segment_paths, windows, i,
           ret, log, external >>

fs == << files, dirs, outputs >>
locals == << output_file, audio, num_segments, segment_paths, windows, i >>

Running == 0 - 1

Init ==
    /\ \/ files = << >>
       \/ \E d \in Durations \cup {Undecodable} : files = (OrigPath :> d)
    /\ dirs = {Cwd}
    /\ outputs = << >>
    /\ key \in BOOLEAN
    /\ run = 1
    /\ args \in Args
    /\ pc = "main"
    /\ output_file = NoOutput
    /\ audio = NotLoaded
    /\ num_segments = 0
    /\ segment_paths = << >>
    /\ windows = << >>
    /\ i = 0
    /\ ret = Running
    /\ log = << >>
    /\ external = 0

Return(r) ==
    /\ pc' = "done"
    /\ ret' = r

\* ------------------------------------------------------------------- main
\* lines 170-178
Main ==
    /\ pc = "main"
    /\ IF args.output = NoOutput /\ args.output_dir # DefaultOutputDir
       THEN /\ dirs' = dirs \cup {args.output_dir}
            /\ output_file' = TimestampPath(args.output_dir, run)
            /\ log' = Append(log, Event("mkdir_output", 0))
       ELSE /\ output_file' = args.output
            /\ UNCHANGED << dirs, log >>
    /\ pc' = "check_key"
    /\ UNCHANGED << files, outputs, key, run, args, audio, num_segments,
                    segment_paths, windows, i, ret, external >>

\* line 174: mkdir raises (the name is taken by a file, or no permission);
\* main has no handler, the exception ends the process
MainMkdirRaises ==
    /\ pc = "main"
    /\ args.output = NoOutput /\ args.output_dir # DefaultOutputDir
    /\ pc' = "crashed"
    /\ log' = Append(log, Event("mkdir_error", 0))
    /\ UNCHANGED << fs, key, run, args, locals, ret, external >>

\* ------------------------------------------------- transcribe_with_models
\* lines 81-86
CheckKey ==
    /\ pc = "check_key"
    /\ IF ~key
       THEN Return(1)
       ELSE /\ pc' = "output_name"
            /\ UNCHANGED ret
    /\ UNCHANGED << fs, key, run, args, locals, log, external >>

GenerateOutputFilenameOpens ==
    /\ pc = "output_name"
    /\ IF output_file = NoOutput
       THEN /\ dirs' = dirs \cup {DefaultOutputDir}
            /\ output_file' = TimestampPath(DefaultOutputDir, run)
            /\ log' = Append(log, Event("mkdir_output", 0))
       ELSE UNCHANGED << dirs, output_file, log >>
    /\ outputs' = OpenWrite(outputs, output_file')
    /\ pc' = "split"
    /\ UNCHANGED << files, key, run, args, audio, num_segments,
                    segment_paths, windows, i, ret, external >>

\* lines 89-90 with generate_output_filename, lines 12-19
GenerateOutputFilename ==
    /\ pc = "output_name"
    /\ IF output_file = NoOutput
       THEN /\ dirs' = dirs \cup {DefaultOutputDir}
            /\ output_file' = TimestampPath(DefaultOutputDir, run)
            /\ log' = Append(log, Event("mkdir_output", 0))
       ELSE UNCHANGED << dirs, output_file, log >>
    /\ pc' = "split"
    /\ UNCHANGED << files, outputs, key, run, args, audio, num_segments,
                    segment_paths, windows, i, ret, external >>

\* line 15 called from line 90, before the try of line 98: mkdir raises
GenerateOutputFilenameRaises ==
    /\ pc = "output_name"
    /\ output_file = NoOutput
    /\ pc' = "crashed"
    /\ log' = Append(log, Event("mkdir_error", 0))
    /\ UNCHANGED << fs, key, run, args, locals, ret, external >>

\* split_audio, lines 35-50
SplitAudio ==
    /\ pc = "split"
    /\ IF args.audio_file \notin DOMAIN files
       THEN \* FileNotFoundError, line 148
            /\ Return(1)
            /\ log' = Append(log, Event("input_missing", 0))
            /\ UNCHANGED << dirs, audio, num_segments, segment_paths >>
       ELSE IF files[args.audio_file] = Undecodable
       THEN \* decoding error, line 151
            /\ Return(1)
            /\ log' = log \o << Event("read_audio", 0),
                                Event("decode_error", 0) >>
            /\ UNCHANGED << dirs, audio, num_segments, segment_paths >>
       ELSE LET len == files[args.audio_file]
                n == NumSegments(len, args.max_duration)
            IN  /\ audio' = len
                /\ num_segments' = n
                /\ UNCHANGED ret
                /\ IF n <= 1
                   THEN /\ segment_paths' = << args.audio_file >>
                        /\ pc' = "header"
                        /\ log' = Append(log, Event("read_audio", 0))
                        /\ UNCHANGED dirs
                   ELSE /\ segment_paths' = << >>
                        /\ dirs' = dirs \cup {TempDir}
                        /\ pc' = "export"
                        /\ log' = log \o << Event("read_audio", 0),
                                            Event("mkdir_temp", 0) >>
    /\ i' = 0
    /\ UNCHANGED << files, outputs, key, run, args, output_file, windows,
                    external >>

\* split_audio, lines 52-65
Export ==
    /\ pc = "export"
    /\ IF i < num_segments
       THEN LET start_ms == StartMs(i, args.max_duration)
                end_ms == EndMs(i, args.max_duration, audio)
            IN  /\ files' = (SegmentPath(i) :> (end_ms - start_ms)) @@ files
                /\ segment_paths' = Append(segment_paths, SegmentPath(i))
                /\ windows' = Append(windows, << start_ms, end_ms >>)
                /\ log' = Append(log, Event("export", i))
                /\ i' = i + 1
                /\ UNCHANGED pc
       ELSE /\ pc' = "header"
            /\ i' = 0
            /\ UNCHANGED << files, segment_paths, windows, log >>
    /\ UNCHANGED << dirs, outputs, key, run, args, output_file, audio,
                    num_segments, ret, external >>

\* lines 103-112
WriteHeader ==
    /\ pc = "header"
    /\ LET opened == OpenWrite(outputs, output_file)
       IN  outputs' = [opened EXCEPT ![output_file] = @ \o HeaderBlock]
    /\ log' = Append(log, Event("open_w", 0))
    /\ i' = 0
    /\ pc' = "open_segment"
    /\ UNCHANGED << files, dirs, key, run, args, output_file, audio,
                    num_segments, segment_paths, windows, ret, external >>

\* lines 115-119 and, once the loop is over, line 137
OpenSegment ==
    /\ pc = "open_segment"
    /\ IF i < Len(segment_paths)
       THEN IF segment_paths[i + 1] \in DOMAIN files
            THEN /\ pc' = "transcribe"
                 /\ log' = Append(log, Event("transcribe", i))
                 /\ UNCHANGED ret
            ELSE \* FileNotFoundError, line 148
                 /\ Return(1)
                 /\ UNCHANGED log
       ELSE /\ pc' = IF NeedsCleanup(segment_paths) THEN "remove" ELSE "finish"
            /\ UNCHANGED << ret, log >>
    /\ i' = IF i < Len(segment_paths) THEN i ELSE 0
    /\ UNCHANGED << fs, key, run, args, output_file, audio, num_segments,
                    segment_paths, windows, external >>

\* lines 120-124: the call returns the text
TranscribeOk ==
    /\ pc = "transcribe"
    /\ pc' = "append"
    /\ UNCHANGED << fs, key, run, args, locals, ret, log, external >>

TranscribeFailSkip ==
    /\ pc = "transcribe"
    /\ pc' = "open_segment"
    /\ i' = i + 1
    /\ log' = Append(log, Event("service_error", i))
    /\ UNCHANGED << fs, key, run, args, output_file, audio, num_segments,
                    segment_paths, windows, ret, external >>

\* lines 120-124: the call raises, line 151
TranscribeFail ==
    /\ pc = "transcribe"
    /\ Return(1)
    /\ log' = Append(log, Event("service_error", i))
    /\ UNCHANGED << fs, key, run, args, locals, external >>

AppendTextDeferred ==
    /\ pc = "append"
    /\ i' = i + 1
    /\ pc' = "open_segment"
    /\ UNCHANGED << fs, key, run, args, output_file, audio, num_segments,
                    segment_paths, windows, ret, log, external >>

AppendTextAndRemove ==
    /\ pc = "append"
    /\ outputs' = [outputs EXCEPT ![output_file] = @ \o AppendedBlocks(i)]
    /\ files' = [p \in DOMAIN files \ {segment_paths[i + 1]} |-> files[p]]
    /\ log' = log \o << Event("append", i),
                        Event("remove", segment_paths[i + 1].idx) >>
    /\ i' = i + 1
    /\ pc' = "open_segment"
    /\ UNCHANGED << dirs, key, run, args, output_file, audio,
                    num_segments, segment_paths, windows, ret, external >>

\* lines 130-134
AppendText ==
    /\ pc = "append"
    /\ outputs' = [outputs EXCEPT ![output_file] = @ \o AppendedBlocks(i)]
    /\ log' = Append(log, Event("append", i))
    /\ i' = i + 1
    /\ pc' = "open_segment"
    /\ UNCHANGED << files, dirs, key, run, args, output_file, audio,
                    num_segments, segment_paths, windows, ret, external >>

\* lines 139-141
Remove ==
    /\ pc = "remove"
    /\ IF i < Len(segment_paths)
       THEN LET path == segment_paths[i + 1]
            IN  IF ShouldRemove(path, args.audio_file)
                THEN IF path \in DOMAIN files
                     THEN /\ files' = [p \in DOMAIN files \ {path} |-> files[p]]
                          /\ log' = Append(log, Event("remove", path.idx))
                          /\ i' = i + 1
                          /\ UNCHANGED << pc, ret >>
                     ELSE \* FileNotFoundError, line 148
                          /\ Return(1)
                          /\ log' = Append(log, Event("remove_missing", path.idx))
                          /\ UNCHANGED << files, i >>
                ELSE /\ i' = i + 1
                     /\ UNCHANGED << files, log, pc, ret >>
       ELSE /\ pc' = "rmdir"
            /\ UNCHANGED << files, log, i, ret >>
    /\ UNCHANGED << dirs, outputs, key, run, args, output_file, audio,
                    num_segments, segment_paths, windows, external >>

\* line 142
Rmdir ==
    /\ pc = "rmdir"
    /\ IF TempDir \in dirs /\ \A p \in DOMAIN files : p.dir # TempDir
       THEN /\ dirs' = dirs \ {TempDir}
            /\ log' = Append(log, Event("rmdir", 0))
            /\ pc' = "finish"
            /\ UNCHANGED ret
       ELSE \* OSError, line 151
            /\ Return(1)
            /\ UNCHANGED << dirs, log >>
    /\ UNCHANGED << files, outputs, key, run, args, locals, external >>

\* lines 144-155
Finish ==
    /\ pc = "finish"
    /\ Return(0)
    /\ UNCHANGED << fs, key, run, args, locals, log, external >>

\* the next invocation of the program, on the file system the last one left
NewRun ==
    /\ pc \in {"done", "crashed"}
    /\ run < MaxRuns
    /\ run' = run + 1
    /\ args' \in Args
    /\ key' \in BOOLEAN
    /\ pc' = "main"
    /\ output_file' = NoOutput
    /\ audio' = NotLoaded
    /\ num_segments' = 0
    /\ segment_paths' = << >>
    /\ windows' = << >>
    /\ i' = 0
    /\ ret' = Running
    /\ log' = << >>
    /\ UNCHANGED << fs, external >>

\* somebody else removes a chunk file while the invocation runs
ExternalRemove ==
    /\ pc \notin {"done", "crashed", "main"}
    /\ external < MaxExternal
    /\ \E p \in DOMAIN files :
          /\ p.dir = TempDir
          /\ files' = [q \in DOMAIN files \ {p} |-> files[q]]
    /\ external' = external + 1
    /\ UNCHANGED << dirs, outputs, key, run, args, pc, locals, ret, log >>

Next ==
    \/ Main
    \/ CheckKey
    \/ GenerateOutputFilename
    \/ SplitAudio
    \/ Export
    \/ WriteHeader
    \/ OpenSegment
    \/ TranscribeOk
    \/ TranscribeFail
    \/ AppendText
    \/ Remove
    \/ Rmdir
    \/ Finish
    \/ NewRun

Spec == Init /\ [][Next]_vars

NextEnv ==
    \/ Next
    \/ ExternalRemove
    \/ MainMkdirRaises
    \/ GenerateOutputFilenameRaises

SpecEnv == Init /\ [][NextEnv]_vars

\* ------------------------------------------------------- derived notions
Range(seq) == {seq[k] : k \in 1..Len(seq)}

IsBody(b) == b \notin Range(HeaderBlock) \cup {Separator}

\* the segment bodies of an output file, in file order
Bodies(blocks) == SelectSeq(blocks, IsBody)

\* the texts of chunks 0..k-1
ExpectedBodies(k) == [j \in 1..k |-> Text(j - 1)]

\* the ordinals of the operations op of the current invocation, in order
IsOp(op, e) == e.op = op
Ordinals(op) ==
    LET Sel(e) == IsOp(op, e)
        evs == SelectSeq(log, Sel)
    IN  [k \in 1..Len(evs) |-> evs[k].n]

Did(op) == \E k \in 1..Len(log) : log[k].op = op

UpTo(k) == [j \in 1..k |-> j - 1]

RECURSIVE SumLengths(_)
SumLengths(ws) ==
    IF ws = << >> THEN 0
    ELSE (Head(ws)[2] - Head(ws)[1]) + SumLengths(Tail(ws))

MaxMs == args.max_duration * MsPerSec

\* split_audio has returned its list
SplitReturned == audio # NotLoaded /\ pc \notin {"split", "export"}

TempFiles == {p \in DOMAIN files : p.dir = TempDir}

\* ------------------------------------------------------------------ claims
\* C1: for every input longer than max_duration, split_audio returns
\* ceil(T / max_duration) chunks in ascending ordinal order; chunk k covers
\* [k*max_duration, min((k+1)*max_duration, T)); the windows are gapless,
\* do not overlap, none is longer than max_duration, and their lengths sum
\* to T.
C1_SplitWindows ==
    (SplitReturned /\ audio > MaxMs) =>
        LET n == Len(segment_paths)
        IN  /\ (n - 1) * MaxMs < audio /\ audio <= n * MaxMs
            /\ Len(windows) = n
            /\ \A k \in 1..n : segment_paths[k] = SegmentPath(k - 1)
            /\ \A k \in 1..n :
                  /\ windows[k][1] = (k - 1) * MaxMs
                  /\ windows[k][2] = Min(k * MaxMs, audio)
                  /\ windows[k][2] - windows[k][1] <= MaxMs
                  /\ windows[k][1] <= windows[k][2]
            /\ windows[1][1] = 0
            /\ \A k \in 1..(n - 1) : windows[k + 1][1] = windows[k][2]
            /\ windows[n][2] = audio
            /\ SumLengths(windows) = audio

C1_Witness ==
    /\ SplitReturned
    /\ args.max_duration = 1
    /\ windows = << << 0, 1000 >>, << 1000, 2000 >>, << 2000, 2001 >> >>

\* C2: for every input no longer than max_duration (T = 0 included),
\* split_audio returns the one-element list holding the input path, and the
\* run creates no temporary chunk directory and no chunk file.
C2_NoSplit ==
    (audio # NotLoaded /\ audio <= MaxMs) =>
        /\ pc # "split" => segment_paths = << args.audio_file >>
        /\ pc # "export"
        /\ windows = << >>
        /\ ~Did("mkdir_temp") /\ ~Did("export")
        /\ ~Did("remove") /\ ~Did("rmdir")

C2_Witness ==
    /\ pc = "done" /\ ret = 0
    /\ audio = MaxMs
    /\ segment_paths = << OrigPath >>

\* the chunk files of the current invocation: every path of segment_paths
\* but the input itself
ChunkPaths == {q \in Range(segment_paths) : q # args.audio_file}

AllTranscribed ==
    /\ segment_paths # << >>
    /\ Ordinals("append") = UpTo(Len(segment_paths))

HasHeader(blocks) ==
    /\ Len(blocks) >= Len(HeaderBlock)
    /\ SubSeq(blocks, 1, Len(HeaderBlock)) = HeaderBlock

\* C3: if the transcription call fails on chunk k, then when the run returns
\* the output file holds the header and exactly the bodies of chunks 0..k-1,
\* no call was issued for a chunk after k, and the run returns 1.
C3_FailFast ==
    Did("service_error") =>
        LET k == Ordinals("service_error")[1]
        IN  /\ pc = "done" /\ ret = 1
            /\ Ordinals("service_error") = << k >>
            /\ HasHeader(outputs[output_file])
            /\ Bodies(outputs[output_file]) = ExpectedBodies(k)
            /\ Ordinals("transcribe") = UpTo(k + 1)

C3_Witness ==
    /\ pc = "done"
    /\ Len(segment_paths) = 3
    /\ Ordinals("service_error") = << 1 >>
    /\ Bodies(outputs[output_file]) = << "0" >>

\* C4: in every state the segment bodies of an output file are those of
\* chunks 0..j-1 in ascending order, and for the file of the running
\* invocation j is the number of appends made so far and at most n: no body
\* is written early, twice or skipped.
C4_OrderedBodies ==
    /\ \A f \in DOMAIN outputs :
          Bodies(outputs[f]) = ExpectedBodies(Len(Bodies(outputs[f])))
    /\ Did("open_w") =>
          LET j == Len(Bodies(outputs[output_file]))
          IN  /\ j <= Len(segment_paths)
              /\ Ordinals("append") = UpTo(j)

C4_Witness ==
    /\ pc = "transcribe" /\ i = 2
    /\ Bodies(outputs[output_file]) = << "0", "1" >>

\* C5: when a multi-chunk run fails in a transcription call, on return every
\* chunk file of the run is deleted and the temporary directory is removed
\* if it is empty.
C5_CleanupOnFailure ==
    (pc = "done" /\ Did("service_error") /\ NeedsCleanup(segment_paths)) =>
        /\ ChunkPaths \cap DOMAIN files = {}
        /\ TempFiles = {} => TempDir \notin dirs

C7_MissingChunkTolerated ==
    (pc = "done" /\ Did("remove_missing")) =>
        /\ AllTranscribed
        /\ ret = 0
        /\ ChunkPaths \cap DOMAIN files = {}

\* C8: without the API key an invocation through main returns 1 having done
\* no file I/O: no directory created, no output file opened, the input not
\* read, no chunk exported.
C8_NoIOWithoutKey ==
    (pc = "done" /\ ~key) => (ret = 1 /\ log = << >>)

\* C9: once the header is written, and also in the final state of a failed
\* run, the output file starts with the header block and no line of a header
\* occurs after it.
C9_OneHeader ==
    Did("open_w") =>
        LET out == outputs[output_file]
        IN  /\ HasHeader(out)
            /\ \A k \in (Len(HeaderBlock) + 1)..Len(out) :
                  out[k] \notin Range(HeaderBlock)

C9_Witness ==
    /\ pc = "done" /\ ret = 1
    /\ Did("service_error")
    /\ Len(outputs[output_file]) > Len(HeaderBlock) + 1

\* C10: while the transcription call for chunk i is in flight the output
\* file holds the bodies of chunks 0..i-1, and every call for a chunk j > 0
\* is issued after the append of chunk j-1.
C10_FlushedBeforeNext ==
    /\ pc = "transcribe" =>
          /\ output_file \in DOMAIN outputs
          /\ Bodies(outputs[output_file]) = ExpectedBodies(i)
    /\ \A k \in 1..Len(log) :
          (log[k].op = "transcribe" /\ log[k].n > 0) =>
              \E q \in 1..(k - 1) : log[q] = Event("append", log[k].n - 1)

C10_Witness ==
    /\ pc = "transcribe" /\ i = 2
    /\ Len(segment_paths) = 3
    /\ Ordinals("append") = << 0, 1 >>

\* the input could not be found or decoded
InputFailed == Did("input_missing") \/ Did("decode_error")

\* C11: the run returns 1 whenever the input is missing or undecodable, the
\* API key is missing, or a transcription call fails; it returns 0 when none
\* of these occurs and all n chunks were transcribed and written.
C11_ExitStatus ==
    pc = "done" =>
        /\ (~key \/ InputFailed \/ Did("service_error")) => ret = 1
        /\ (key /\ ~InputFailed /\ ~Did("service_error") /\ AllTranscribed)
              => ret = 0

\* C12: every error, an IOError while creating the output directory or
\* generating the output path included, is caught and turned into return
\* value 1: no invocation ends in an unhandled exception.
C12_NoUnhandledException ==
    /\ pc # "crashed"
    /\ Did("mkdir_error") => (pc = "done" /\ ret = 1)

IsSeparator(b) == b = Separator

\* what follows the header block in an output file
AfterHeader(blocks) == SubSeq(blocks, Len(HeaderBlock) + 1, Len(blocks))

\* C13: in every state an output file holds max(0, b-1) separators for its b
\* bodies: the body of chunk 0 is not preceded by a separator and the body
\* of every later chunk is immediately preceded by exactly one.
C13_Separators ==
    \A f \in DOMAIN outputs :
        LET rest == AfterHeader(outputs[f])
            b == Len(SelectSeq(rest, IsBody))
            seps == Len(SelectSeq(rest, IsSeparator))
        IN  /\ seps = IF b = 0 THEN 0 ELSE b - 1
            /\ Len(rest) = seps + b
            /\ \A k \in 1..Len(rest) :
                  /\ rest[k] = Text(0) => k = 1
                  /\ (IsBody(rest[k]) /\ rest[k] # Text(0)) =>
                        /\ k > 2
                        /\ rest[k - 1] = Separator
                        /\ rest[k - 2] # Separator

C13_Witness ==
    /\ pc = "done" /\ ret = 0
    /\ outputs[output_file] =
          HeaderBlock \o << "0", Separator, "1", Separator, "2" >>

\* C14: for every input longer than max_duration every exported window has
\* strictly positive length, also when T is a multiple of max_duration, and
\* the last window ends at T.
C14_PositiveWindows ==
    /\ \A k \in 1..Len(windows) : windows[k][1] < windows[k][2]
    /\ (SplitReturned /\ audio > MaxMs) =>
          /\ windows # << >>
          /\ windows[Len(windows)][2] = audio

C14_Witness ==
    /\ SplitReturned
    /\ audio = 2 * MaxMs
    /\ Len(windows) = 2
    /\ windows[2][2] = audio

\* C15: when the temporary directory still holds files the run did not
\* create, the run deletes its own chunks, leaves the directory in place and,
\* every chunk having been transcribed, returns 0.
C15_OrphansTolerated ==
    ( /\ pc = "done"
      /\ NeedsCleanup(segment_paths)
      /\ AllTranscribed
      /\ \E p \in TempFiles : p \notin Range(segment_paths) ) =>
        /\ ChunkPaths \cap DOMAIN files = {}
        /\ TempDir \in dirs
        /\ ret = 0

\* C16: the run deletes a chunk file only after the transcription call for
\* the last chunk has returned, so every chunk file exists when it is opened
\* for transcription and while its call is in flight.
C16_DeleteAfterLastCall ==
    /\ \A k \in 1..Len(log) :
          log[k].op = "remove" =>
              \A q \in 1..Len(log) :
                  log[q].op \in {"transcribe", "append", "service_error"}
                      => q < k
    /\ Did("remove") =>
          /\ Ordinals("transcribe") = UpTo(Len(segment_paths))
          /\ AllTranscribed
    /\ (pc \in {"open_segment", "transcribe", "append"}
            /\ i < Len(segment_paths)) =>
          segment_paths[i + 1] \in DOMAIN files

C16_Witness ==
    /\ pc = "remove" /\ i = 1
    /\ Len(segment_paths) = 3
    /\ Ordinals("remove") = << 0 >>
    /\ SegmentPath(1) \in DOMAIN files

\* C17: segmentation finishes before the output file is opened: output files
\* change only once split_audio has returned, and when the input is missing
\* or undecodable the run returns 1 without opening the output file, so an
\* existing file at the output path keeps its contents.
C17_SplitBeforeOutput ==
    /\ [](InputFailed =>
            /\ pc = "done" /\ ret = 1
            /\ ~Did("open_w") /\ ~Did("append"))
    /\ [][outputs' # outputs =>
            /\ audio # NotLoaded
            /\ ~InputFailed'
            /\ pc \in {"header", "append"}]_vars

C17_Witness ==
    /\ pc = "done" /\ ret = 1
    /\ InputFailed
    /\ output_file \in DOMAIN outputs
    /\ Len(Bodies(outputs[output_file])) > 0

====
